---- MODULE Spec2Model ----
(***************************************************************************)
(* A model of utils/wordle_face/wordle_list.py: the word filter            *)
(* (list_of_valid_words), the uniqueness partitioner                       *)
(* (rearrange_words_by_uniqueness), the array printer (print_valid_words)  *)
(* and the exploratory scan over all letter combinations                   *)
(* (txt_of_all_letter_combos).                                             *)
(*                                                                         *)
(* A character is a one-character string, a word or any other Python       *)
(* string is a sequence of characters, a Python list is a sequence.        *)
(***************************************************************************)
EXTENDS Integers, Sequences, FiniteSets, TLC

VARIABLES
    words,              \* the module-level dictionary `words`
    alphabet,           \* the module-level list `alphabet`
    pc,                 \* where the running entry point stands
    letters,            \* the `letters` argument / loop variable
    arg_words,          \* the argument of rearrange_words_by_uniqueness
    legal_words,        \* the local `legal_words`
    num_uniq,           \* the local `num_uniq`
    out_letters,        \* stdout: the _valid_letters array, once printed
    out_words,          \* stdout: the _legal_words array, once printed
    out_num_unique,     \* stdout: the _num_unique_words value, once printed
    num_letters_in_set, \* the argument of txt_of_all_letter_combos
    all_combos,         \* the local `all_combos`
    to_print,           \* the local `to_print`
    estimated_prints,   \* the local `estimated_prints`
    i,                  \* how many combinations the scoring loop has taken
    print_iter,         \* the local `print_iter`
    dict_combos_counts, \* the local dict, as a sequence of <<key, value>> in insertion order
    reports,            \* stdout: the progress reports printed so far
    most_common_key,    \* the local `most_common_key`
    output_txt,         \* the file output.txt: whether it was opened, and its lines
    err,                \* the exception that ended the run, or "none"
    now,                \* the clock time.time() reads, in ticks
    start,              \* the local `start`
    prev,               \* the local `prev`
    curr,               \* the local `curr`
    report_ticks,       \* the ticks spent producing reports since the clock was last read
    delta_report_ticks, \* how many of them lie between `prev` and `curr`
    seconds,            \* the argument of get_sec_val_and_units, in milliseconds
    rendered            \* the string get_sec_val_and_units returned, as <<value, unit>> pairs

vars == <<words, alphabet, pc, letters, arg_words, legal_words, num_uniq,
          out_letters, out_words, out_num_unique, num_letters_in_set,
          all_combos, to_print, estimated_prints, i, print_iter,
          dict_combos_counts, reports, most_common_key, output_txt, err,
          now, start, prev, curr, report_ticks, delta_report_ticks,
          seconds, rendered>>

\* the clock, the readings taken from it and the account of its ticks
clockvars == <<now, start, prev, curr, report_ticks, delta_report_ticks>>

\* what get_sec_val_and_units takes and returns
fmtvars == <<seconds, rendered>>

-----------------------------------------------------------------------------
(* Bounds of the model. *)

\* longest dictionary given to the filter alone
MaxWords == 3
\* longest letter list given to the filter alone
MaxLetters == 3
\* longest word list given to the partitioner alone
MaxPart == 3
\* longest dictionary of a run of txt_of_all_letter_combos
MaxDict == 2
\* largest num_letters_in_set
MaxSize == 3
\* last tick of the clock
MaxTime == 3
\* longest duration given to get_sec_val_and_units alone, in seconds
MaxSeconds == 7300

-----------------------------------------------------------------------------
(* Characters and strings. *)

\* the 26 letters of `alphabet`
AlphabetLetters ==
    <<"A", "B", "C", "D", "E", "F", "G", "H", "I", "J", "K", "L", "M",
      "N", "O", "P", "Q", "R", "S", "T", "U", "V", "W", "X", "Y", "Z">>

LowerLetters ==
    <<"a", "b", "c", "d", "e", "f", "g", "h", "i", "j", "k", "l", "m",
      "n", "o", "p", "q", "r", "s", "t", "u", "v", "w", "x", "y", "z">>

IndexIn(s, c) == CHOOSE k \in 1..Len(s) : s[k] = c

IsIn(c, s) == \E k \in 1..Len(s) : s[k] = c

\* str.upper() of one character
upper(c) == IF IsIn(c, LowerLetters) THEN AlphabetLetters[IndexIn(LowerLetters, c)] ELSE c

\* the code point of a character, the order sorted() compares by
ord(c) ==
    IF IsIn(c, AlphabetLetters) THEN 64 + IndexIn(AlphabetLetters, c)
    ELSE IF IsIn(c, LowerLetters) THEN 96 + IndexIn(LowerLetters, c)
    ELSE 0

\* str.upper() of a string
UpperStr(s) == [k \in 1..Len(s) |-> upper(s[k])]

\* str.replace("D", "d")
ReplaceD(s) == [k \in 1..Len(s) |-> IF s[k] = "D" THEN "d" ELSE s[k]]

Range(s) == {s[k] : k \in 1..Len(s)}

\* all sequences over S of length at most n
SeqsUpTo(S, n) == UNION {[1..m -> S] : m \in 0..n}

\* sorted() of a list of characters: a stable insertion by code point
RECURSIVE SortedInsert(_, _)
SortedInsert(s, c) ==
    IF s = <<>> THEN <<c>>
    ELSE IF ord(c) < ord(Head(s)) THEN <<c>> \o s
    ELSE <<Head(s)>> \o SortedInsert(Tail(s), c)

RECURSIVE sorted(_)
sorted(s) ==
    IF s = <<>> THEN <<>>
    ELSE SortedInsert(sorted(SubSeq(s, 1, Len(s) - 1)), s[Len(s)])

-----------------------------------------------------------------------------
(* list_of_valid_words *)

\* line 344 alone: the sorted copy of the letters, left as they came
NoCapitalize(ls) == sorted(ls)

\* lines 344-346: the sorted copy of the letters, each capitalized in place
Capitalized(ls) == UpperStr(sorted(ls))

\* lines 349-353: the inner loop over the word's letters, with its break
valid_word(word, ls) == \A k \in 1..Len(word) : IsIn(upper(word[k]), ls)

\* lines 347-356 without the `word not in legal_words` test of line 354
RECURSIVE ScanKeepAll(_, _, _)
ScanKeepAll(ws, ls, legal) ==
    IF ws = <<>> THEN legal
    ELSE ScanKeepAll(Tail(ws), ls,
                     IF valid_word(Head(ws), ls) THEN Append(legal, Head(ws)) ELSE legal)

\* lines 347-356: the loop over `words`, from the words still to visit
RECURSIVE ScanWords(_, _, _)
ScanWords(ws, ls, legal) ==
    IF ws = <<>> THEN legal
    ELSE ScanWords(Tail(ws), ls,
                   IF valid_word(Head(ws), ls) /\ ~IsIn(Head(ws), legal)
                   THEN Append(legal, Head(ws))
                   ELSE legal)

list_of_valid_words(ls) == ScanWords(words, Capitalized(ls), <<>>)

-----------------------------------------------------------------------------
(* rearrange_words_by_uniqueness *)

\* len(set(word))
DistinctCount(word) == Cardinality(Range(word))

unique(ws) == SelectSeq(ws, LAMBDA w : Len(w) = DistinctCount(w))

duplicates(ws) == SelectSeq(ws, LAMBDA w : Len(w) # DistinctCount(w))

\* line 362 with the two lists joined the other way round
rearrange_duplicates_first(ws) == <<duplicates(ws) \o unique(ws), Len(unique(ws))>>

\* line 362 returning the length of the other list
rearrange_count_duplicates(ws) == <<unique(ws) \o duplicates(ws), Len(duplicates(ws))>>

\* lines 359-362: the pair returned, the rearranged list and the count
rearrange_words_by_uniqueness(ws) == <<unique(ws) \o duplicates(ws), Len(unique(ws))>>

-----------------------------------------------------------------------------
(* print_valid_words *)

\* lines 370-371 without the rewriting
NotRewritten(ws) == ws

\* lines 370-371: every word uppercased, its "D" then written "d"
Rewritten(ws) == [k \in 1..Len(ws) |-> ReplaceD(UpperStr(ws[k]))]

IndexPermutations(n) == {p \in [1..n -> 1..n] : \A a, b \in 1..n : a # b => p[a] # p[b]}

\* line 372: every order random.shuffle can leave the list in
Shuffles(ws) == {[k \in 1..Len(ws) |-> ws[p[k]]] : p \in IndexPermutations(Len(ws))}

\* lines 365-394, on the letters ls, going on at ret. letters[-1] of line 380
\* raises IndexError on an empty list, after the first print of line 377.
print_valid_words(ls, ret) ==
    \E shuffled \in Shuffles(Rewritten(list_of_valid_words(ls))) :
        /\ legal_words' = rearrange_words_by_uniqueness(shuffled)[1]
        /\ num_uniq' = rearrange_words_by_uniqueness(shuffled)[2]
        /\ IF ls = <<>>
           THEN /\ err' = "IndexError"
                /\ pc' = "raised"
                /\ UNCHANGED <<out_letters, out_words, out_num_unique>>
           ELSE /\ out_letters' = ls
                /\ out_words' = legal_words'
                /\ out_num_unique' = num_uniq'
                /\ pc' = ret
                /\ UNCHANGED err

-----------------------------------------------------------------------------
(* txt_of_all_letter_combos *)

\* line 417
num_status_prints == 100

\* line 422
letters_to_ignore == {"D", "T"}

\* line 423 leaving out "D" alone
legal_letters_keeping_T == SelectSeq(alphabet, LAMBDA c : c # "D")

\* line 423
legal_letters == SelectSeq(alphabet, LAMBDA c : c \notin letters_to_ignore)

\* each combination of cs with c put in front
Prefixed(c, cs) == [k \in 1..Len(cs) |-> <<c>> \o cs[k]]

\* the r-length combinations of pool with those skipping its first element
\* produced first
RECURSIVE combinations_tail_first(_, _)
combinations_tail_first(pool, r) ==
    IF r = 0 THEN << <<>> >>
    ELSE IF Len(pool) < r THEN <<>>
    ELSE combinations_tail_first(Tail(pool), r)
         \o Prefixed(Head(pool), combinations_tail_first(Tail(pool), r - 1))

\* itertools.combinations(pool, r) of line 425: the r-length tuples of
\* elements at increasing positions of pool, in the order of the positions
RECURSIVE combinations(_, _)
combinations(pool, r) ==
    IF r = 0 THEN << <<>> >>
    ELSE IF Len(pool) < r THEN <<>>
    ELSE Prefixed(Head(pool), combinations(Tail(pool), r - 1))
         \o combinations(Tail(pool), r)

\* round() of the quotient n / d of two naturals, d > 0: to the nearest
\* integer, a half going to the even one
PyRound(n, d) ==
    LET q == n \div d
        r == n % d
    IN  IF 2 * r < d THEN q
        ELSE IF 2 * r > d THEN q + 1
        ELSE IF q % 2 = 0 THEN q ELSE q + 1

Max(a, b) == IF a >= b THEN a ELSE b

\* repr() of a list of characters, as the string's characters
RECURSIVE ReprItems(_)
ReprItems(ls) ==
    IF ls = <<>> THEN <<>>
    ELSE <<"'", Head(ls), "'">>
         \o (IF Len(ls) > 1 THEN <<",", " ">> \o ReprItems(Tail(ls)) ELSE <<>>)

repr(ls) == <<"[">> \o ReprItems(ls) \o <<"]">>

\* ast.literal_eval() of such a string: the quoted characters, in order
literal_eval(s) == [j \in 1..(Len(s) \div 5) |-> s[5 * j - 2]]

\* line 432 counting the letters instead of the words
score_of_letters(ls) == Len(ls)

\* line 432: the score of a combination
score(ls) == Len(list_of_valid_words(ls))

HasKey(d, key) == \E k \in 1..Len(d) : d[k][1] = key

\* d[key] = value of a dict: a key already there keeps its place
DictSet(d, key, value) ==
    IF HasKey(d, key)
    THEN [k \in 1..Len(d) |-> IF d[k][1] = key THEN <<key, value>> ELSE d[k]]
    ELSE Append(d, <<key, value>>)

\* the items an ascending sort reversed afterwards leaves before item k:
\* those of greater value and those of equal value that came after it
before_reversed(d, k) ==
    {j \in 1..Len(d) : d[j][2] > d[k][2] \/ (d[j][2] = d[k][2] /\ j > k)}

\* the items sorted(..., reverse=True) puts before item k: those of greater
\* value and, the sort being stable, those of equal value that came before it
before(d, k) ==
    {j \in 1..Len(d) : d[j][2] > d[k][2] \/ (d[j][2] = d[k][2] /\ j < k)}

\* line 449 with the ascending sort reversed afterwards: equal values end
\* in the reverse of their insertion order
sorted_then_reversed(d) ==
    LET place == [k \in 1..Len(d) |-> Cardinality(before_reversed(d, k)) + 1]
    IN  [p \in 1..Len(d) |-> d[CHOOSE k \in 1..Len(d) : place[k] = p]]

\* line 449: sorted(items, key=value, reverse=True), which is stable: items
\* of equal value keep their order
sorted_by_value(d) ==
    LET place == [k \in 1..Len(d) |-> Cardinality(before(d, k)) + 1]
    IN  [p \in 1..Len(d) |-> d[CHOOSE k \in 1..Len(d) : place[k] = p]]

-----------------------------------------------------------------------------
(* Words of the dictionary the model draws from (lines 4-315). *)

MAMMA == <<"M", "A", "M", "M", "A">>
MADAM == <<"M", "A", "D", "A", "M">>
GAMMA == <<"G", "A", "M", "M", "A">>
LLAMA == <<"L", "L", "A", "M", "A">>
LEADS == <<"L", "E", "A", "D", "S">>
MEALS == <<"M", "E", "A", "L", "S">>

\* the words and letters given to the filter alone
FilterWords == {MAMMA, MADAM, GAMMA}
FilterChars == {"A", "D", "M", "a", "d", "m"}

\* the words and letters given to print_valid_words alone: every list that
\* keeps some of PrintLetters, in their order
PrintWords == {MAMMA, MADAM, LEADS, MEALS}
PrintLetters == <<"A", "D", "E", "L", "M", "S">>
PrintLetterLists == {SelectSeq(PrintLetters, LAMBDA c : c \in S) : S \in SUBSET Range(PrintLetters)}

\* the words and alphabets given to txt_of_all_letter_combos: every alphabet
\* that keeps some of ComboLetters, in their order
ComboWords == {MAMMA, GAMMA, LLAMA, MADAM}
ComboLetters == <<"A", "D", "G", "L", "M", "T">>
Alphabets == {SelectSeq(ComboLetters, LAMBDA c : c \in S) : S \in SUBSET Range(ComboLetters)}

\* the words given to the partitioner alone: as print_valid_words passes them
PartWords == {MAMMA, ReplaceD(MADAM), ReplaceD(LEADS), MEALS}

-----------------------------------------------------------------------------
(* The state when an entry point is entered: the globals, the arguments,   *)
(* and nothing computed or printed yet.                                    *)

Entered(ws, al, p, ls, aw, n) ==
    /\ words = ws
    /\ alphabet = al
    /\ pc = p
    /\ letters = ls
    /\ arg_words = aw
    /\ num_letters_in_set = n
    /\ legal_words = <<>>
    /\ num_uniq = 0
    /\ out_letters = <<>>
    /\ out_words = <<>>
    /\ out_num_unique = 0
    /\ all_combos = <<>>
    /\ to_print = 0
    /\ estimated_prints = 0
    /\ i = 0
    /\ print_iter = 0
    /\ dict_combos_counts = <<>>
    /\ reports = <<>>
    /\ most_common_key = <<>>
    /\ output_txt = [opened |-> FALSE, lines |-> <<>>]
    /\ err = "none"
    /\ now = 0
    /\ start = 0
    /\ prev = 0
    /\ curr = 0
    /\ report_ticks = 0
    /\ delta_report_ticks = 0
    /\ rendered = <<>>

-----------------------------------------------------------------------------
(* The filter alone: list_of_valid_words(letters) on a dictionary. *)

InitFilter ==
    \E ws \in SeqsUpTo(FilterWords, MaxWords), ls \in SeqsUpTo(FilterChars, MaxLetters) :
        Entered(ws, AlphabetLetters, "call", ls, <<>>, 0) /\ seconds = 0

CallListOfValidWords ==
    /\ pc = "call"
    /\ legal_words' = list_of_valid_words(letters)
    /\ pc' = "returned"
    /\ UNCHANGED <<words, alphabet, letters, arg_words, num_uniq, out_letters,
                   out_words, out_num_unique, num_letters_in_set, all_combos,
                   to_print, estimated_prints, i, print_iter,
                   dict_combos_counts, reports, most_common_key, output_txt, err>>
    /\ UNCHANGED <<clockvars, fmtvars>>

SpecFilter == InitFilter /\ [][CallListOfValidWords]_vars

-----------------------------------------------------------------------------
(* The partitioner alone: rearrange_words_by_uniqueness(words). *)

InitPartition ==
    \E aw \in SeqsUpTo(PartWords, MaxPart) :
        Entered(<<>>, AlphabetLetters, "call", <<>>, aw, 0) /\ seconds = 0

CallRearrange ==
    /\ pc = "call"
    /\ legal_words' = rearrange_words_by_uniqueness(arg_words)[1]
    /\ num_uniq' = rearrange_words_by_uniqueness(arg_words)[2]
    /\ pc' = "returned"
    /\ UNCHANGED <<words, alphabet, letters, arg_words, out_letters,
                   out_words, out_num_unique, num_letters_in_set, all_combos,
                   to_print, estimated_prints, i, print_iter,
                   dict_combos_counts, reports, most_common_key, output_txt, err>>
    /\ UNCHANGED <<clockvars, fmtvars>>

SpecPartition == InitPartition /\ [][CallRearrange]_vars

-----------------------------------------------------------------------------
(* The default workflow alone: print_valid_words(letters) on a dictionary. *)

InitPrint ==
    \E ws \in SeqsUpTo(PrintWords, MaxWords), ls \in PrintLetterLists :
        Entered(ws, AlphabetLetters, "call", ls, <<>>, 0) /\ seconds = 0

CallPrintValidWords ==
    /\ pc = "call"
    /\ print_valid_words(letters, "done")
    /\ UNCHANGED <<words, alphabet, letters, arg_words, num_letters_in_set,
                   all_combos, to_print, estimated_prints, i, print_iter,
                   dict_combos_counts, reports, most_common_key, output_txt>>
    /\ UNCHANGED <<clockvars, fmtvars>>

SpecPrint == InitPrint /\ [][CallPrintValidWords]_vars

-----------------------------------------------------------------------------
(* The exploratory mode: txt_of_all_letter_combos(num_letters_in_set). *)

\* alphabets long enough for the reporting period to exceed one combination:
\* 22 and 24 usable letters give 231 and 276 pairs
LongAlphabets == {SubSeq(AlphabetLetters, 1, 24), AlphabetLetters}

Init ==
    \/ \E ws \in SeqsUpTo(ComboWords, MaxDict), al \in Alphabets, n \in 1..MaxSize :
           Entered(ws, al, "start", <<>>, <<>>, n) /\ seconds = 0
    \/ \E ws \in SeqsUpTo({MAMMA}, 1), al \in LongAlphabets :
           Entered(ws, al, "start", <<>>, <<>>, 2) /\ seconds = 0

\* line 429, with a reporting period of twice the combinations
estimate_from_status_prints(len_all_combos, period) == num_status_prints

\* line 429
estimate_prints(len_all_combos, period) == PyRound(len_all_combos, period)

\* lines 417-429: the clock is read, the combinations and the reporting period
Enumerate ==
    /\ pc = "start"
    /\ prev' = now
    /\ start' = now
    /\ all_combos' = combinations(legal_letters, num_letters_in_set)
    /\ to_print' = Max(1, Len(all_combos') \div num_status_prints)
    /\ estimated_prints' = estimate_prints(Len(all_combos'), to_print')
    /\ pc' = "loop"
    /\ UNCHANGED <<words, alphabet, letters, arg_words, legal_words, num_uniq,
                   out_letters, out_words, out_num_unique, num_letters_in_set,
                   i, print_iter, dict_combos_counts, reports, most_common_key,
                   output_txt, err>>
    /\ UNCHANGED <<now, curr, report_ticks, delta_report_ticks, fmtvars>>

\* line 434, a report being due one combination later
report_due_late(n) == n > to_print

\* line 434
report_due(n) == n >= to_print

\* lines 430-435: a combination is scored and, when a report is due, the
\* clock is read; `i` counts the combinations taken, so the loop's own index
\* is i - 1 from here to the end of the pass
ScoreStep ==
    /\ pc = "loop"
    /\ i < Len(all_combos)
    /\ letters' = sorted(all_combos[i + 1])
    /\ dict_combos_counts' = DictSet(dict_combos_counts, repr(letters'), score(letters'))
    /\ print_iter' = print_iter + 1
    /\ i' = i + 1
    /\ IF report_due(print_iter')
       THEN /\ curr' = now
            /\ delta_report_ticks' = report_ticks
            /\ report_ticks' = 0
            /\ pc' = "report"
       ELSE UNCHANGED <<curr, delta_report_ticks, report_ticks, pc>>
    /\ UNCHANGED <<words, alphabet, arg_words, legal_words, num_uniq,
                   out_letters, out_words, out_num_unique, num_letters_in_set,
                   all_combos, to_print, estimated_prints, most_common_key,
                   reports, err>>
    /\ UNCHANGED <<now, start, prev, fmtvars>>

\* lines 430-435, with output.txt rewritten after every combination
ScoreComboWriting ==
    /\ ScoreStep
    /\ output_txt' = [opened |-> TRUE, lines |-> dict_combos_counts']

\* lines 430-435: the loop body opens no file
ScoreCombo ==
    /\ ScoreStep
    /\ UNCHANGED output_txt

\* line 447, with `prev` left at its first reading
prev_kept == prev

\* line 447
next_prev == curr

\* lines 436-448: the report is built from the loop index and the two clock
\* readings, printed, and the interval restarts at `curr`
PrintReport ==
    /\ pc = "report"
    /\ LET index == i - 1
           len_all_combos == Len(all_combos)
           delta == curr - prev
           time_passed == curr - start
           total_time_estimate == delta * estimated_prints
           time_left_estimate == (delta * estimated_prints) - time_passed
       IN  reports' = Append(reports,
                             [index |-> index,
                              time_passed |-> time_passed,
                              delta |-> delta,
                              total_time_estimate |-> total_time_estimate,
                              time_left_estimate |-> time_left_estimate,
                              items_left |-> len_all_combos - index,
                              percent |-> PyRound(100 * index, len_all_combos)])
    /\ prev' = next_prev
    /\ print_iter' = 0
    /\ pc' = "loop"
    /\ UNCHANGED <<words, alphabet, letters, arg_words, legal_words, num_uniq,
                   out_letters, out_words, out_num_unique, num_letters_in_set,
                   all_combos, to_print, estimated_prints, i,
                   dict_combos_counts, most_common_key, output_txt, err>>
    /\ UNCHANGED <<now, start, curr, report_ticks, delta_report_ticks, fmtvars>>

\* line 449: the loop is over, the dict is rebuilt sorted
SortScores ==
    /\ pc = "loop"
    /\ i = Len(all_combos)
    /\ dict_combos_counts' = sorted_by_value(dict_combos_counts)
    /\ pc' = "sorted"
    /\ UNCHANGED <<words, alphabet, letters, arg_words, legal_words, num_uniq,
                   out_letters, out_words, out_num_unique, num_letters_in_set,
                   all_combos, to_print, estimated_prints, i, print_iter,
                   reports, most_common_key, output_txt, err>>
    /\ UNCHANGED <<clockvars, fmtvars>>

\* lines 451-452: next(iter(dict)) raises StopIteration on an empty dict
SelectBest ==
    /\ pc = "sorted"
    /\ IF dict_combos_counts = <<>>
       THEN /\ err' = "StopIteration"
            /\ pc' = "raised"
            /\ UNCHANGED most_common_key
       ELSE /\ most_common_key' = dict_combos_counts[1][1]
            /\ pc' = "print"
            /\ UNCHANGED err
    /\ UNCHANGED <<words, alphabet, letters, arg_words, legal_words, num_uniq,
                   out_letters, out_words, out_num_unique, num_letters_in_set,
                   all_combos, to_print, estimated_prints, i, print_iter,
                   dict_combos_counts, reports, output_txt>>
    /\ UNCHANGED <<clockvars, fmtvars>>

\* line 453
PrintBest ==
    /\ pc = "print"
    /\ print_valid_words(literal_eval(most_common_key), "write")
    /\ UNCHANGED <<words, alphabet, letters, arg_words, num_letters_in_set,
                   all_combos, to_print, estimated_prints, i, print_iter,
                   dict_combos_counts, reports, most_common_key, output_txt>>
    /\ UNCHANGED <<clockvars, fmtvars>>

\* lines 456-457, with only the best item written
written_best_only(d) == SubSeq(d, 1, 1)

\* lines 456-457: one line per item of the dict, in the dict's order
written_lines(d) == d

\* lines 455-457: output.txt is opened and takes a line per item
WriteOutput ==
    /\ pc = "write"
    /\ output_txt' = [opened |-> TRUE, lines |-> written_lines(dict_combos_counts)]
    /\ pc' = "done"
    /\ UNCHANGED <<words, alphabet, letters, arg_words, legal_words, num_uniq,
                   out_letters, out_words, out_num_unique, num_letters_in_set,
                   all_combos, to_print, estimated_prints, i, print_iter,
                   dict_combos_counts, reports, most_common_key, err>>
    /\ UNCHANGED <<clockvars, fmtvars>>

Next ==
    \/ Enumerate
    \/ ScoreCombo
    \/ PrintReport
    \/ SortScores
    \/ SelectBest
    \/ PrintBest
    \/ WriteOutput

Spec == Init /\ [][Next]_vars

\* ---- get_sec_val_and_units, on durations in whole milliseconds ----

\* line 400
hours_of(ms) == ms \div 3600000

\* line 401, without the remainder of the hour
minutes_of_whole(ms) == ms \div 60000

\* line 401
minutes_of(ms) == (ms % 3600000) \div 60000

\* line 402
secs_of(ms) == (ms % 60000) \div 1000

\* lines 397-408: the f-string as its <<value, unit>> pairs; under one
\* second round(seconds * 1000) is the number of milliseconds itself
get_sec_val_and_units(ms) ==
    IF ms < 1000
    THEN << <<ms, "ms">> >>
    ELSE LET hours == hours_of(ms)
             minutes == minutes_of(ms)
             secs == secs_of(ms)
         IN  IF hours > 0
             THEN << <<hours, "hr">>, <<minutes, "min">>, <<secs, "sec">> >>
             ELSE IF minutes > 0
                  THEN << <<minutes, "min">>, <<secs, "sec">> >>
                  ELSE << <<secs, "sec">> >>

\* durations: every whole second up to MaxSeconds, alone, with half a second
\* and with 999 ms
Durations == {1000 * sec + ms : sec \in 0..MaxSeconds, ms \in {0, 500, 999}}

InitTime ==
    \E d \in Durations :
        Entered(<<>>, AlphabetLetters, "call", <<>>, <<>>, 0) /\ seconds = d

CallGetSecValAndUnits ==
    /\ pc = "call"
    /\ rendered' = get_sec_val_and_units(seconds)
    /\ pc' = "returned"
    /\ UNCHANGED <<words, alphabet, letters, arg_words, legal_words, num_uniq,
                   out_letters, out_words, out_num_unique, num_letters_in_set,
                   all_combos, to_print, estimated_prints, i, print_iter,
                   dict_combos_counts, reports, most_common_key, output_txt, err>>
    /\ UNCHANGED <<clockvars, seconds>>

SpecTime == InitTime /\ [][CallGetSecValAndUnits]_vars

\* ---- the same run under a clock that advances ----

\* alphabets of the timed runs
ClockAlphabets == {<<"A", "M">>, <<"A", "G", "M", "T">>}

InitClock ==
    \E al \in ClockAlphabets, n \in 1..MaxSize :
        Entered(<<MAMMA>>, al, "start", <<>>, <<>>, n) /\ seconds = 0

\* time.time() moves on between any two steps of the run; a tick that falls
\* between line 435 and line 448 is time spent producing a report
Tick ==
    /\ now < MaxTime
    /\ now' = now + 1
    /\ report_ticks' = IF pc = "report" THEN report_ticks + 1 ELSE report_ticks
    /\ UNCHANGED <<words, alphabet, pc, letters, arg_words, legal_words, num_uniq,
                   out_letters, out_words, out_num_unique, num_letters_in_set,
                   all_combos, to_print, estimated_prints, i, print_iter,
                   dict_combos_counts, reports, most_common_key, output_txt, err>>
    /\ UNCHANGED <<start, prev, curr, delta_report_ticks, fmtvars>>

NextClock ==
    \/ Enumerate
    \/ ScoreCombo
    \/ PrintReport
    \/ SortScores
    \/ SelectBest
    \/ PrintBest
    \/ WriteOutput
    \/ Tick

SpecClock == InitClock /\ [][NextClock]_vars

-----------------------------------------------------------------------------
(* Properties of list_of_valid_words, under SpecFilter. *)

\* the letters a list allows, whatever its order and case
AllowedSet(ls) == {upper(c) : c \in Range(ls)}

Qualifies(word, ls) == \A k \in 1..Len(word) : upper(word[k]) \in AllowedSet(ls)

\* C1: a dictionary word is in the result of list_of_valid_words exactly when
\* every one of its characters, uppercased, is one of the uppercased letters,
\* for letters in any order and case; the result holds dictionary words
\* only, and an empty letter list gives an empty result.
C1_FilterMembership ==
    pc = "returned" =>
        /\ \A k \in 1..Len(words) :
               IsIn(words[k], legal_words) <=> Qualifies(words[k], letters)
        /\ Range(legal_words) \subseteq Range(words)
        /\ (letters = <<>> => legal_words = <<>>)

\* C1's case: unsorted letters with a lowercase one, a word in the result
\* that uses only some of them, and a dictionary word left out.
C1_Witness ==
    /\ pc = "returned"
    /\ Len(letters) >= 2
    /\ ord(letters[1]) > ord(letters[2])
    /\ \E c \in Range(letters) : upper(c) # c
    /\ \E k \in 1..Len(legal_words) : Range(legal_words[k]) # AllowedSet(letters)
    /\ \E k \in 1..Len(words) : ~IsIn(words[k], legal_words)

\* the index of a word's first occurrence in the dictionary
FirstIndex(w) == CHOOSE k \in 1..Len(words) :
                    /\ words[k] = w
                    /\ \A j \in 1..(k - 1) : words[j] # w

\* C2: the result of list_of_valid_words holds no word twice, and its words
\* stand in the order of their first occurrences in the dictionary.
C2_FilterNoDuplicatesInOrder ==
    pc = "returned" =>
        /\ \A k, l \in 1..Len(legal_words) : k # l => legal_words[k] # legal_words[l]
        /\ \A k \in 1..Len(legal_words) : IsIn(legal_words[k], words)
        /\ \A k, l \in 1..Len(legal_words) :
               k < l => FirstIndex(legal_words[k]) < FirstIndex(legal_words[l])

\* C2's case: a qualifying word occurs twice in the dictionary with another
\* qualifying word between the occurrences.
C2_Witness ==
    /\ pc = "returned"
    /\ Len(legal_words) = 2
    /\ \E a, b, c \in 1..Len(words) :
           /\ a < b /\ b < c
           /\ words[a] = words[c]
           /\ words[a] = legal_words[1]
           /\ words[b] = legal_words[2]

-----------------------------------------------------------------------------
(* Properties of rearrange_words_by_uniqueness, under SpecPartition. *)

\* no character of the word repeats
AllDistinct(w) == \A a, b \in 1..Len(w) : a # b => w[a] # w[b]

Occurrences(ws, w) == Cardinality({k \in 1..Len(ws) : ws[k] = w})

\* C3: the list returned is the all-distinct-letter subsequence of the input
\* followed by its repeated-letter subsequence: the same words as often as
\* in the input, in the input's order inside each group.
C3_PartitionReconstruction ==
    pc = "returned" =>
        /\ legal_words = SelectSeq(arg_words, AllDistinct)
                          \o SelectSeq(arg_words, LAMBDA w : ~AllDistinct(w))
        /\ \A w \in Range(arg_words) \cup Range(legal_words) :
               Occurrences(legal_words, w) = Occurrences(arg_words, w)
        /\ SelectSeq(legal_words, AllDistinct) = SelectSeq(arg_words, AllDistinct)
        /\ SelectSeq(legal_words, LAMBDA w : ~AllDistinct(w))
               = SelectSeq(arg_words, LAMBDA w : ~AllDistinct(w))

\* C3's case: an input with a word twice and a repeated-letter word ahead of
\* an all-distinct one, so that the list returned differs from the input.
C3_Witness ==
    /\ pc = "returned"
    /\ legal_words # arg_words
    /\ \E k, l \in 1..Len(arg_words) : k < l /\ arg_words[k] = arg_words[l]
    /\ \E k, l \in 1..Len(arg_words) :
           k < l /\ ~AllDistinct(arg_words[k]) /\ AllDistinct(arg_words[l])

\* C4: the count returned is the number of all-distinct-letter words; the
\* words up to it have no repeated character, the words after it have one.
C4_PartitionCount ==
    pc = "returned" =>
        /\ num_uniq = Cardinality({k \in 1..Len(arg_words) : AllDistinct(arg_words[k])})
        /\ num_uniq <= Len(legal_words)
        /\ \A k \in 1..Len(legal_words) : (k <= num_uniq) <=> AllDistinct(legal_words[k])

\* C4's case: both groups are non-empty and the groups differ in size.
C4_Witness ==
    /\ pc = "returned"
    /\ num_uniq >= 1
    /\ Len(legal_words) - num_uniq >= 1
    /\ Len(legal_words) - num_uniq # num_uniq
    /\ \E w \in Range(arg_words) : "d" \in Range(w)

-----------------------------------------------------------------------------
(* Properties of print_valid_words, under SpecPrint. *)

\* the filtered list with "D" written "d"
FilteredWithD(ls) ==
    [k \in 1..Len(list_of_valid_words(ls)) |-> ReplaceD(list_of_valid_words(ls)[k])]

\* how many leading entries of the list have all-distinct letters
LeadingDistinct(ws) ==
    Cardinality({n \in 1..Len(ws) : \A k \in 1..n : AllDistinct(ws[k])})

\* C5: whatever the shuffle did, the word array printed is a permutation of
\* the filtered list with "D" written "d", no repeated-letter word stands
\* before an all-distinct one, _num_unique_words is the number of leading
\* all-distinct entries, and writing "D" as "d" changes no word's being
\* all-distinct.
C5_PrintedArray ==
    pc = "done" =>
        /\ Len(out_words) = Len(FilteredWithD(letters))
        /\ \A w \in Range(out_words) \cup Range(FilteredWithD(letters)) :
               Occurrences(out_words, w) = Occurrences(FilteredWithD(letters), w)
        /\ \A k, l \in 1..Len(out_words) :
               k < l => ~(~AllDistinct(out_words[k]) /\ AllDistinct(out_words[l]))
        /\ out_num_unique = LeadingDistinct(out_words)
        /\ \A w \in Range(list_of_valid_words(letters)) :
               AllDistinct(ReplaceD(w)) <=> AllDistinct(w)

\* C5's case: the shuffle changed the order of two all-distinct words, one
\* of them with a "d", and a repeated-letter word with a "d" follows them.
C5_Witness ==
    /\ pc = "done"
    /\ Len(out_words) = 3
    /\ out_num_unique = 2
    /\ "d" \in Range(out_words[2]) /\ "d" \in Range(out_words[3])
    /\ \E a, b \in 1..Len(words) :
           a < b /\ ReplaceD(words[a]) = out_words[2] /\ ReplaceD(words[b]) = out_words[1]

-----------------------------------------------------------------------------
(* Properties of txt_of_all_letter_combos, under Spec. *)

\* the number of k-element subsets of an n-element set
RECURSIVE Binomial(_, _)
Binomial(n, k) ==
    IF k = 0 THEN 1
    ELSE IF n = 0 THEN 0
    ELSE Binomial(n - 1, k - 1) + Binomial(n - 1, k)

\* the letters of the alphabet left once "D" and "T" are removed
UsableLetters == Range(alphabet) \ {"D", "T"}

\* the place of a letter in the alphabet
Place(c) == CHOOSE k \in 1..Len(alphabet) : alphabet[k] = c

\* C6: with n usable letters (the alphabet without "D" and "T") and size
\* k >= 1, the enumeration gives exactly C(n, k) combinations, each of k
\* distinct usable letters, no two the same set; it gives none, and raises
\* nothing, when k > n.
C6_CombinationCount ==
    pc # "start" =>
        /\ Len(all_combos) = Binomial(Cardinality(UsableLetters), num_letters_in_set)
        /\ \A j \in 1..Len(all_combos) :
               /\ Len(all_combos[j]) = num_letters_in_set
               /\ Cardinality(Range(all_combos[j])) = num_letters_in_set
               /\ Range(all_combos[j]) \subseteq UsableLetters
        /\ \A j, l \in 1..Len(all_combos) :
               j # l => Range(all_combos[j]) # Range(all_combos[l])
        /\ (num_letters_in_set > Cardinality(UsableLetters) => all_combos = <<>>)
        /\ (pc = "loop" => err = "none")

\* C6's case: an alphabet holding "D" and "T" and more usable letters than
\* the size asked for, so that several combinations are enumerated.
C6_Witness ==
    /\ pc = "loop"
    /\ {"D", "T"} \subseteq Range(alphabet)
    /\ num_letters_in_set >= 2
    /\ Cardinality(UsableLetters) > num_letters_in_set
    /\ Len(all_combos) >= 3

\* a sequence of letters precedes another of the same length in the
\* lexicographic order of the alphabet
LexLess(a, b) ==
    \E k \in 1..Len(a) :
        /\ \A j \in 1..(k - 1) : a[j] = b[j]
        /\ Place(a[k]) < Place(b[k])

\* C7: every combination lists its letters in the order of the alphabet,
\* and the combinations follow one another in strictly increasing
\* lexicographic order of the alphabet; the letters the loop sorts and the
\* keys it inserts are in that order too.
C7_CombinationOrder ==
    pc # "start" =>
        /\ \A j \in 1..Len(all_combos) :
               \A a, b \in 1..Len(all_combos[j]) :
                   a < b => Place(all_combos[j][a]) < Place(all_combos[j][b])
        /\ \A j \in 1..(Len(all_combos) - 1) : LexLess(all_combos[j], all_combos[j + 1])
        /\ (pc = "loop" /\ i > 0 => letters = all_combos[i])
        /\ (pc = "loop" =>
               \A j \in 1..(Len(dict_combos_counts) - 1) :
                   LexLess(literal_eval(dict_combos_counts[j][1]),
                           literal_eval(dict_combos_counts[j + 1][1])))

\* C7's case: the three combinations of size 2 of a three-letter alphabet,
\* the first two sharing their first letter, all three scored.
C7_Witness ==
    /\ pc = "loop"
    /\ Len(alphabet) = 3
    /\ Len(all_combos) = 3
    /\ i = 3
    /\ all_combos = << <<alphabet[1], alphabet[2]>>,
                       <<alphabet[1], alphabet[3]>>,
                       <<alphabet[2], alphabet[3]>> >>

\* the dictionary words a combination can spell
Spellable(combo) == {w \in Range(words) : Range(w) \subseteq Range(combo)}

\* C8: while the loop runs the scoreboard holds one entry for each
\* combination taken so far, in enumeration order, each with the number of
\* dictionary words its combination spells; so when the loop is over it
\* holds C(n, k) entries, one per combination.
C8_Scoreboard ==
    pc = "loop" =>
        /\ Len(dict_combos_counts) = i
        /\ \A j \in 1..i :
               /\ literal_eval(dict_combos_counts[j][1]) = all_combos[j]
               /\ dict_combos_counts[j][1] = repr(all_combos[j])
               /\ dict_combos_counts[j][2] = Cardinality(Spellable(all_combos[j]))
        /\ (i = Len(all_combos) =>
               Len(dict_combos_counts)
                   = Binomial(Cardinality(UsableLetters), num_letters_in_set))

\* C8's case: the loop is over with several combinations scored, of
\* different scores, on a dictionary that holds a word twice.
C8_Witness ==
    /\ pc = "loop"
    /\ i = Len(all_combos)
    /\ i >= 3
    /\ Len(words) = 2 /\ words[1] = words[2]
    /\ \E j, l \in 1..i : dict_combos_counts[j][2] # dict_combos_counts[l][2]

\* the score the scoreboard holds for a key
DictGet(d, key) == d[CHOOSE k \in 1..Len(d) : d[k][1] = key][2]

\* the enumeration index of the combination a key stands for
IndexOfKey(key) == CHOOSE j \in 1..Len(all_combos) : repr(sorted(all_combos[j])) = key

\* C9: the combination selected scores at least as much as every other, and
\* more than every combination enumerated before it; it is the one passed
\* to print_valid_words.
C9_BestSelection ==
    pc \in {"print", "write", "done"} =>
        /\ HasKey(dict_combos_counts, most_common_key)
        /\ \A j \in 1..Len(all_combos) :
               /\ Cardinality(Spellable(all_combos[j]))
                      <= DictGet(dict_combos_counts, most_common_key)
               /\ (j < IndexOfKey(most_common_key) =>
                      Cardinality(Spellable(all_combos[j]))
                          < DictGet(dict_combos_counts, most_common_key))
        /\ (pc \in {"write", "done"} =>
               out_letters = all_combos[IndexOfKey(most_common_key)])

\* C9's case: the top score is shared by two combinations, neither the
\* first enumerated, and the earlier of the two was selected and printed.
C9_Witness ==
    /\ pc = "done"
    /\ IndexOfKey(most_common_key) > 1
    /\ \E j \in 1..Len(all_combos) :
           /\ j > IndexOfKey(most_common_key)
           /\ Cardinality(Spellable(all_combos[j]))
                  = DictGet(dict_combos_counts, most_common_key)

\* C10: with no combination to score the run ends normally: the scoreboard
\* is empty, no report was printed and no exception was raised.
C10_EmptyRunCompletes ==
    (pc # "start" /\ all_combos = <<>>) =>
        /\ dict_combos_counts = <<>>
        /\ reports = <<>>
        /\ err = "none"
        /\ pc # "raised"

\* the number of combinations scored so far: the scoreboard takes one entry
\* per combination (C8)
Processed == Len(dict_combos_counts)

\* the loop is back at its head and the last thing it did was print a report
JustReported == pc = "loop" /\ reports # <<>> /\ print_iter = 0

\* the report printed last
LastReport == reports[Len(reports)]

\* C11: the percent figure of a report is round(100 * processed / total),
\* the combination just scored counted as processed; after the last
\* combination it is 100.
C11_PercentOfProcessed ==
    JustReported =>
        /\ LastReport.percent = PyRound(100 * Processed, Len(all_combos))
        /\ (Processed = Len(all_combos) => LastReport.percent = 100)

\* C12: the items-left figure of a report is the number of combinations not
\* yet scored; after the last combination it is 0.
C12_ItemsLeftUnscored ==
    JustReported =>
        /\ LastReport.items_left = Len(all_combos) - Processed
        /\ (Processed = Len(all_combos) => LastReport.items_left = 0)

\* the block of combinations the claims name: max(1, floor(total / 100))
Block == Max(1, Len(all_combos) \div 100)

\* the loop is over: every combination was taken
LoopOver == pc \in {"sorted", "print", "write", "done", "raised"}

\* reports are printed after each full block and at no other time
ReportAfterEachBlock ==
    /\ (pc = "loop" =>
           /\ Len(reports) = i \div Block
           /\ print_iter = i % Block)
    /\ (pc = "report" =>
           /\ i % Block = 0
           /\ Len(reports) = (i \div Block) - 1)
    /\ (LoopOver => Len(reports) = Len(all_combos) \div Block)

\* C13 as stated: a report after each block of max(1, floor(total / 100))
\* combinations, and with 100 combinations or more at most 100 reports in
\* the run.
C13_AtMostHundredReports ==
    /\ ReportAfterEachBlock
    /\ (Len(all_combos) >= 100 => Len(reports) <= num_status_prints)

\* C13 amended: a report after each block of max(1, floor(total / 100))
\* combinations, floor(total / block) reports in a full run, and with 100
\* combinations or more fewer than 200 of them.
C13_ReportCadence ==
    /\ ReportAfterEachBlock
    /\ (Len(all_combos) >= 100 => Len(reports) < 2 * num_status_prints)

\* C13's case: a full run over more than 100 combinations, whose block is
\* two combinations, printed more than 100 reports.
C13_Witness ==
    /\ pc = "done"
    /\ Len(all_combos) >= 100
    /\ to_print = 2
    /\ Len(reports) > num_status_prints

\* C18 as stated: estimated_prints is the number of reports the run prints.
C18_EstimateIsReportCount ==
    (LoopOver /\ Len(all_combos) >= 1) => estimated_prints = Len(reports)

\* C18 amended: estimated_prints is the number of reports the run prints or
\* one more, never less; it is round(total / to_print) while the loop
\* prints floor(total / to_print) reports.
C18_EstimateWithinOne ==
    (pc # "start" /\ Len(all_combos) >= 1) =>
        /\ estimated_prints = PyRound(Len(all_combos), to_print)
        /\ (LoopOver =>
               /\ Len(reports) = Len(all_combos) \div to_print
               /\ Len(reports) <= estimated_prints
               /\ estimated_prints <= Len(reports) + 1)

\* C18's case: a run over 231 combinations is finished; it printed 115
\* reports and had estimated 116.
C18_Witness ==
    /\ pc = "done"
    /\ Len(all_combos) = 231
    /\ Len(reports) = 115
    /\ estimated_prints = 116

\* output.txt as it is before anything opens it
Unopened == [opened |-> FALSE, lines |-> <<>>]

\* C16: output.txt holds one line per combination enumerated, each
\* combination exactly once with its score, the scores never increasing
\* down the file and combinations of equal score in enumeration order.
C16_OutputFile ==
    pc = "done" =>
        LET lines == output_txt.lines IN
        /\ output_txt.opened
        /\ Len(lines) = Len(all_combos)
        /\ \A j \in 1..Len(all_combos) :
               LET key == repr(sorted(all_combos[j])) IN
               /\ Cardinality({k \in 1..Len(lines) : lines[k][1] = key}) = 1
               /\ \A k \in 1..Len(lines) :
                      lines[k][1] = key =>
                          lines[k][2] = Cardinality(Spellable(all_combos[j]))
        /\ \A k \in 1..(Len(lines) - 1) :
               /\ lines[k][2] >= lines[k + 1][2]
               /\ (lines[k][2] = lines[k + 1][2] =>
                      IndexOfKey(lines[k][1]) < IndexOfKey(lines[k + 1][1]))

\* C16's case: the file was written from a scoreboard with two scores, the
\* higher one shared by two combinations and the first combination
\* enumerated not on the first line.
C16_Witness ==
    /\ pc = "done"
    /\ Len(output_txt.lines) >= 3
    /\ output_txt.lines[1][2] = output_txt.lines[2][2]
    /\ output_txt.lines[1][2] > output_txt.lines[Len(output_txt.lines)][2]
    /\ output_txt.lines[1][1] # repr(sorted(all_combos[1]))

\* C17: output.txt is neither opened nor written before every combination
\* is scored and the best one selected and printed; a run stopped anywhere
\* before that leaves no file.
C17_NoEarlyOutput ==
    /\ (pc # "done" => output_txt = Unopened)
    /\ (output_txt # Unopened =>
           /\ Processed = Len(all_combos)
           /\ most_common_key = dict_combos_counts[1][1]
           /\ out_letters = literal_eval(most_common_key))

\* C17's case: the loop is in the middle of a run, a report is being
\* printed, the scoreboard has entries and output.txt is untouched.
C17_Witness ==
    /\ pc = "report"
    /\ Processed >= 1
    /\ i < Len(all_combos)
    /\ reports # <<>>
    /\ output_txt = Unopened

\* C14: the interval a report shows holds no time spent producing a
\* report: none of the ticks between `prev` and `curr` fell while an
\* earlier report was being built and printed, so the estimates made from
\* the interval hold none either.
C14_DeltaExcludesReportTime ==
    delta_report_ticks = 0

\* deltas of the first n reports, added up
RECURSIVE SumDeltas(_)
SumDeltas(n) == IF n = 0 THEN 0 ELSE SumDeltas(n - 1) + reports[n].delta

\* the clock reading report n was made from (the start for n = 0)
Reading(n) == IF n = 0 THEN start ELSE start + reports[n].time_passed

\* C19: at every report the deltas of the reports so far add up to the
\* elapsed time the report shows: the intervals are contiguous, each one
\* starting at the reading of the report before it, the first at `start`.
C19_DeltasSumToElapsed ==
    /\ \A n \in 1..Len(reports) :
           /\ SumDeltas(n) = reports[n].time_passed
           /\ reports[n].delta = Reading(n) - Reading(n - 1)
           /\ reports[n].delta >= 0
    /\ (pc \in {"loop", "report"} => prev = Reading(Len(reports)))
    /\ (pc = "report" => curr - prev >= 0)

\* C19's case: two reports were printed, the clock moved before the first
\* and again between the two.
C19_Witness ==
    /\ Len(reports) >= 2
    /\ reports[1].delta > 0
    /\ reports[2].delta > 0
    /\ reports[2].time_passed = reports[1].delta + reports[2].delta

\* the units of a rendering, in order
Units(r) == [k \in 1..Len(r) |-> r[k][2]]

\* C15: a duration under one second is rendered as its milliseconds and no
\* other is; from one second on the rendering holds hours, minutes in 0..59
\* and seconds in 0..59 that add up to the duration cut to whole seconds:
\* all three when there are hours, minutes and seconds when there are
\* minutes but no hours, seconds alone otherwise.
C15_Rendering ==
    pc = "returned" =>
        LET whole == seconds \div 1000 IN
        /\ (seconds < 1000 <=> Units(rendered) = <<"ms">>)
        /\ (seconds < 1000 => rendered[1][1] = seconds)
        /\ (seconds >= 1000 =>
               /\ Units(rendered) \in {<<"hr", "min", "sec">>, <<"min", "sec">>, <<"sec">>}
               /\ (Units(rendered) = <<"hr", "min", "sec">> =>
                      /\ rendered[1][1] > 0
                      /\ rendered[2][1] \in 0..59
                      /\ rendered[3][1] \in 0..59
                      /\ rendered[1][1] * 3600 + rendered[2][1] * 60 + rendered[3][1] = whole)
               /\ (Units(rendered) = <<"min", "sec">> =>
                      /\ rendered[1][1] \in 1..59
                      /\ rendered[2][1] \in 0..59
                      /\ rendered[1][1] * 60 + rendered[2][1] = whole)
               /\ (Units(rendered) = <<"sec">> =>
                      /\ rendered[1][1] \in 1..59
                      /\ rendered[1][1] = whole))
        /\ (seconds = 500 => rendered = << <<500, "ms">> >>)
        /\ (seconds = 65000 => rendered = << <<1, "min">>, <<5, "sec">> >>)
        /\ (seconds = 3665000 =>
               rendered = << <<1, "hr">>, <<1, "min">>, <<5, "sec">> >>)

\* C15's case: 3665.5 seconds came back as 1 hr 1 min 5 sec, the half
\* second cut off.
C15_Witness ==
    /\ pc = "returned"
    /\ seconds = 3665500
    /\ rendered = << <<1, "hr">>, <<1, "min">>, <<5, "sec">> >>

====
